---- MODULE Spec2Model ----
(***************************************************************************)
(* A model of gogo's fetch action (doFetch and the functions it calls):    *)
(* the asset matcher, the preflight / repositories / fetching phases and   *)
(* the archive extractors.                                                 *)
(*                                                                         *)
(* Strings of the program whose characters matter (asset names, the host   *)
(* architecture and operating system, the tokens of the tables) are        *)
(* sequences of one-character strings, so that strings.Contains,           *)
(* strings.HasSuffix and strings.ToLower are computed as Go computes them. *)
(* Strings that the program only compares for equality (repository names,  *)
(* installed file names, tags) are TLA+ strings.                           *)
(*                                                                         *)
(* Range loops take the address of their loop variable (&asset, &repo,     *)
(* &util); the model gives each iteration its own variable, which is the   *)
(* semantics of Go 1.22 and later.                                         *)
(***************************************************************************)
EXTENDS Integers, Sequences, FiniteSets, TLC

(***************************************************************************)
(* Strings                                                                 *)
(***************************************************************************)

\* strings.Contains(s, t): t occurs in s as a contiguous run; "" always does.
Contains(s, t) ==
    \E i \in 0..(Len(s) - Len(t)) : SubSeq(s, i + 1, i + Len(t)) = t

\* strings.HasSuffix(s, t)
HasSuffix(s, t) ==
    /\ Len(t) <= Len(s)
    /\ SubSeq(s, Len(s) - Len(t) + 1, Len(s)) = t

\* unicode.ToLower on one character
LowerChar(c) ==
    CASE c = "A" -> "a" [] c = "B" -> "b" [] c = "C" -> "c" [] c = "D" -> "d"
      [] c = "E" -> "e" [] c = "F" -> "f" [] c = "G" -> "g" [] c = "H" -> "h"
      [] c = "I" -> "i" [] c = "J" -> "j" [] c = "K" -> "k" [] c = "L" -> "l"
      [] c = "M" -> "m" [] c = "N" -> "n" [] c = "O" -> "o" [] c = "P" -> "p"
      [] c = "Q" -> "q" [] c = "R" -> "r" [] c = "S" -> "s" [] c = "T" -> "t"
      [] c = "U" -> "u" [] c = "V" -> "v" [] c = "W" -> "w" [] c = "X" -> "x"
      [] c = "Y" -> "y" [] c = "Z" -> "z" [] OTHER -> c

\* strings.ToLower(s)
ToLower(s) == [i \in 1..Len(s) |-> LowerChar(s[i])]

\* Character sequences used to spell tokens and asset names.
Empty    == << >>
S_amd64   == <<"a", "m", "d", "6", "4">>
S_x86_64  == <<"x", "8", "6", "_", "6", "4">>
S_musl    == <<"m", "u", "s", "l">>
S_arm     == <<"a", "r", "m">>
S_arm64   == <<"a", "r", "m", "6", "4">>
S_aarch64 == <<"a", "a", "r", "c", "h", "6", "4">>
S_riscv64 == <<"r", "i", "s", "c", "v", "6", "4">>
S_darwin  == <<"d", "a", "r", "w", "i", "n">>
S_macos   == <<"m", "a", "c", "o", "s">>
S_osx     == <<"o", "s", "x">>
S_linux   == <<"l", "i", "n", "u", "x">>
S_sha     == <<".", "s", "h", "a">>
S_sig     == <<".", "s", "i", "g">>
S_asc     == <<".", "a", "s", "c">>
S_tar_gz  == <<".", "t", "a", "r", ".", "g", "z">>
S_tgz     == <<".", "t", "g", "z">>
S_tar     == <<".", "t", "a", "r">>
S_zip     == <<".", "z", "i", "p">>
S_tool    == <<"t", "o", "o", "l">>
S_app     == <<"a", "p", "p">>
S_us      == <<"_">>
S_dash    == <<"-">>

(***************************************************************************)
(* Tables                                                                  *)
(***************************************************************************)

\* "This list is sorted from least desirable to most desirable"
Amd64Arch == <<Empty, S_amd64, S_x86_64, S_musl>>
Arm64Arch == <<Empty, S_arm, S_arm64, S_aarch64>>

\* ArchEquiv[hostArch], with the fallback of doFetch for an unknown
\* architecture: ArchInfo{desired: &[]string{hostArch}} (undesired is nil).
ArchEquiv(arch) ==
    CASE arch = S_amd64 -> [desired |-> Amd64Arch, undesired |-> <<Arm64Arch>>]
      [] arch = S_arm64 -> [desired |-> Arm64Arch, undesired |-> <<Amd64Arch>>]
      [] OTHER          -> [desired |-> <<arch>>,  undesired |-> << >>]

\* OSEquiv[hostOS], with the fallback []string{hostOS}.
OSEquiv(os) ==
    CASE os = S_darwin -> <<S_darwin, S_macos, S_osx>>
      [] OTHER         -> <<os>>

\* The infixes of "SHA files, signatures, etc.", which are ignored.
IgnoreList == <<S_sha, S_sig, S_asc>>

(***************************************************************************)
(* getAssetFormat                                                          *)
(***************************************************************************)
getAssetFormat(assetName) ==
    IF HasSuffix(assetName, S_tar_gz) THEN "TargzipFormat"
    ELSE IF HasSuffix(assetName, S_tgz) THEN "TargzipFormat"
    ELSE IF HasSuffix(assetName, S_tar) THEN "TarballFormat"
    ELSE IF HasSuffix(assetName, S_zip) THEN "ZipFormat"
    ELSE "BinaryFormat"

(***************************************************************************)
(* The asset matcher: the assetLoop of doFetch.                            *)
(* A candidate is [idx, strength]: idx is the position in release.Assets   *)
(* of the asset candidateAsset points to, 0 for nil.                       *)
(***************************************************************************)
NoCandidate == [idx |-> 0, strength |-> 0]

\* for _, ignore := range {".sha", ".sig", ".asc"}: strings.Contains
MutIgnored(assetName) ==
    \E k \in 1..Len(IgnoreList) : HasSuffix(assetName, IgnoreList[k])
Ignored(assetName) ==
    \E k \in 1..Len(IgnoreList) : Contains(assetName, IgnoreList[k])

\* The two loops over archList.undesired: a non-empty token of another
\* family occurs in the name.
HasUndesired(assetName, undesired) ==
    \E f \in 1..Len(undesired) :
        \E k \in 1..Len(undesired[f]) :
            /\ undesired[f][k] # Empty
            /\ Contains(assetName, undesired[f][k])

\* strength := uint8(osIdx<<4 + archIdx), the indices counted from 0
MutStrength(osIdx, archIdx) == (osIdx + archIdx * 16) % 256
MutStrengthNoArch(osIdx, archIdx) == (osIdx * 16) % 256
Strength(osIdx, archIdx) == (osIdx * 16 + archIdx) % 256

\* if strength > candidateStrength { candidateStrength, candidateAsset = ... }
MutBetter(strength, cand) == strength >= cand.strength
Better(strength, cand) == strength > cand.strength

\* for osIdx, os := range osList, from position o (1-based) on
RECURSIVE MutOsLoop(_, _, _, _, _, _)
MutOsLoop(ai, assetName, osList, a, o, cand) ==
    IF o > Len(osList) THEN cand
    ELSE LET strength == Strength(o - 1, a - 1)
         IN  MutOsLoop(ai, assetName, osList, a, o + 1,
                       IF strength >= cand.strength
                       THEN [idx |-> ai, strength |-> strength]
                       ELSE cand)
RECURSIVE OsLoop(_, _, _, _, _, _)
OsLoop(ai, assetName, osList, a, o, cand) ==
    IF o > Len(osList) THEN cand
    ELSE IF ~Contains(assetName, osList[o])
         THEN OsLoop(ai, assetName, osList, a, o + 1, cand)
         ELSE LET strength == Strength(o - 1, a - 1)
              IN  OsLoop(ai, assetName, osList, a, o + 1,
                         IF Better(strength, cand)
                         THEN [idx |-> ai, strength |-> strength]
                         ELSE cand)

\* The body of the loop over the desired tokens for one token the name
\* contains: the cross-architecture exclusion ("continue assetLoop": stop),
\* then the loop over the OS synonyms.
MutArchLoopBody(ai, assetName, archList, osList, a, cand) ==
    [stop |-> FALSE, cand |-> OsLoop(ai, assetName, osList, a, 1, cand)]
ArchLoopBody(ai, assetName, archList, osList, a, cand) ==
    IF HasUndesired(assetName, archList.undesired)
    THEN [stop |-> TRUE, cand |-> cand]
    ELSE [stop |-> FALSE, cand |-> OsLoop(ai, assetName, osList, a, 1, cand)]

\* for archIdx, archName := range *archList.desired, from position a on;
\* "continue assetLoop" leaves the asset with the candidate as it is.
RECURSIVE ArchLoop(_, _, _, _, _, _)
ArchLoop(ai, assetName, archList, osList, a, cand) ==
    IF a > Len(archList.desired) THEN cand
    ELSE IF ~Contains(assetName, archList.desired[a])
         THEN ArchLoop(ai, assetName, archList, osList, a + 1, cand)
         ELSE LET r == ArchLoopBody(ai, assetName, archList, osList, a, cand)
              IN  IF r.stop THEN r.cand
                  ELSE ArchLoop(ai, assetName, archList, osList, a + 1, r.cand)

\* for _, asset := range release.Assets, from position ai on
RECURSIVE AssetLoop(_, _, _, _, _)
AssetLoop(assets, archList, osList, ai, cand) ==
    IF ai > Len(assets) THEN cand
    ELSE LET assetName == ToLower(assets[ai].Name)
         IN  IF Ignored(assetName)
             THEN AssetLoop(assets, archList, osList, ai + 1, cand)
             ELSE AssetLoop(assets, archList, osList, ai + 1,
                            ArchLoop(ai, assetName, archList, osList, 1, cand))

\* The candidate doFetch ends with for a release's assets on a host.
SelectAsset(assets, arch, os) ==
    AssetLoop(assets, ArchEquiv(arch), OSEquiv(os), 1, NoCandidate)

(***************************************************************************)
(* Files.  A directory is a function from the file names of the model to   *)
(* a file [data, mode]; Absent stands for "no such file".                  *)
(***************************************************************************)
Absent == [data |-> "", mode |-> ""]

\* existFile: os.Stat succeeds
existFile(dir, fileName) == dir[fileName] # Absent

\* writeBinaryFile on a file of the target directory: os.Create, io.Copy,
\* os.Chmod(0o755).  copyOK = FALSE is io.Copy failing after os.Create has
\* truncated the file: the file is left empty with the mode it had (0644
\* for a new file) and an error is returned.
MutWriteBinaryFile(dir, fileName, data, copyOK) ==
    [err |-> ~copyOK,
     dir |-> [dir EXCEPT ![fileName] = [data |-> data, mode |-> "0644"]]]
writeBinaryFile(dir, fileName, data, copyOK) ==
    IF copyOK
    THEN [err |-> FALSE,
          dir |-> [dir EXCEPT ![fileName] = [data |-> data, mode |-> "0755"]]]
    ELSE [err |-> TRUE,
          dir |-> [dir EXCEPT ![fileName] =
                      [data |-> "",
                       mode |-> IF dir[fileName] = Absent THEN "0644"
                                ELSE dir[fileName].mode]]]

(***************************************************************************)
(* Archives.  An archive is [valid, entries, tail]: valid is whether the   *)
(* container opens (gzip header, zip central directory), entries are       *)
(* [path, typ, data] in archive order, path being the entry name split at  *)
(* "/", and tail is "eof" or "err" (a tar stream that ends in a read       *)
(* error after its entries).                                               *)
(***************************************************************************)

\* filepath.Base of an entry name
Base(path) == IF Len(path) = 0 THEN "." ELSE path[Len(path)]

\* The name the entry is written under (*proceed), "" for nil.
MutProceed(base, fileName, utils) == fileName
Proceed(base, fileName, utils) ==
    IF base = fileName THEN fileName
    ELSE IF \E k \in 1..Len(utils) : utils[k] = base
         THEN utils[CHOOSE k \in 1..Len(utils) :
                        /\ utils[k] = base
                        /\ \A j \in 1..(k - 1) : utils[j] # base]
         ELSE ""

\* The entry loop of writeTarballFile and writeTargzipFile, from entry k on.
RECURSIVE TarLoop(_, _, _, _, _)
TarLoop(archive, k, fileName, utils, dir) ==
    IF k > Len(archive.entries)
    THEN [err |-> archive.tail = "err", dir |-> dir]
    ELSE LET e == archive.entries[k]
             proceed == Proceed(Base(e.path), fileName, utils)
         IN  IF e.typ # "reg"
             THEN TarLoop(archive, k + 1, fileName, utils, dir)
             ELSE IF proceed = ""
             THEN TarLoop(archive, k + 1, fileName, utils, dir)
             ELSE LET w == writeBinaryFile(dir, proceed, e.data, TRUE)
                  IN  IF Len(utils) = 0
                      THEN [err |-> FALSE, dir |-> w.dir]
                      ELSE TarLoop(archive, k + 1, fileName, utils, w.dir)

\* The entry loop of writeZipFile, from entry k on: no test of the entry's
\* kind; File.Open on a directory entry reads its (empty) data.
RECURSIVE ZipLoop(_, _, _, _, _)
ZipLoop(archive, k, fileName, utils, dir) ==
    IF k > Len(archive.entries)
    THEN [err |-> FALSE, dir |-> dir]
    ELSE LET e == archive.entries[k]
             proceed == Proceed(Base(e.path), fileName, utils)
         IN  IF proceed = ""
             THEN ZipLoop(archive, k + 1, fileName, utils, dir)
             ELSE LET w == writeBinaryFile(dir, proceed, e.data, TRUE)
                  IN  IF Len(utils) = 0
                      THEN [err |-> FALSE, dir |-> w.dir]
                      ELSE ZipLoop(archive, k + 1, fileName, utils, w.dir)

\* writeTarballFile: a scratch directory is made and the stream buffered in
\* it (neither is removed), then the entries are read.  The result is
\* [err, dir, scratch]: scratch counts the gogo_work_* directories left.
writeTarballFile(fileName, utils, dir, scratchDirs, archive) ==
    LET r == TarLoop(archive, 1, fileName, utils, dir)
    IN  [err |-> r.err, dir |-> r.dir, scratch |-> scratchDirs + 1]

\* writeTargzipFile: as writeTarballFile behind gzip.NewReader.
writeTargzipFile(fileName, utils, dir, scratchDirs, archive) ==
    IF ~archive.valid
    THEN [err |-> TRUE, dir |-> dir, scratch |-> scratchDirs + 1]
    ELSE LET r == TarLoop(archive, 1, fileName, utils, dir)
         IN  [err |-> r.err, dir |-> r.dir, scratch |-> scratchDirs + 1]

\* writeZipFile: zip.OpenReader reads the central directory first.
writeZipFile(fileName, utils, dir, scratchDirs, archive) ==
    IF ~archive.valid
    THEN [err |-> TRUE, dir |-> dir, scratch |-> scratchDirs + 1]
    ELSE LET r == ZipLoop(archive, 1, fileName, utils, dir)
         IN  [err |-> r.err, dir |-> r.dir, scratch |-> scratchDirs + 1]

\* downloadFile.  resp is the answer of http.Get(url): [kind, body] with
\* kind "error" (transport error), "status" (not 200) or "ok"; body is
\* [data, copyOK] for a plain binary and an archive otherwise.
downloadFile(resp, assetFormat, fileName, utils, dir, scratchDirs) ==
    IF resp.kind # "ok"
    THEN [err |-> TRUE, dir |-> dir, scratch |-> scratchDirs]
    ELSE CASE assetFormat = "TarballFormat" ->
                writeTarballFile(fileName, utils, dir, scratchDirs, resp.body)
           [] assetFormat = "TargzipFormat" ->
                writeTargzipFile(fileName, utils, dir, scratchDirs, resp.body)
           [] assetFormat = "ZipFormat" ->
                writeZipFile(fileName, utils, dir, scratchDirs, resp.body)
           [] OTHER ->
                LET w == writeBinaryFile(dir, fileName, resp.body.data,
                                         resp.body.copyOK)
                IN  [err |-> w.err, dir |-> w.dir, scratch |-> scratchDirs]

(***************************************************************************)
(* The state of one invocation of "gogo fetch", and of what it leaves      *)
(* behind from one invocation to the next.                                 *)
(***************************************************************************)
VARIABLES
    hostArch,        \* strings.ToLower(runtime.GOARCH)
    hostOS,          \* strings.ToLower(runtime.GOOS)
    args,            \* the command line after "fetch": [kind, ...], see ArgForms
    update,          \* -update
    dryRun,          \* -dry-run
    tags,            \* expandTags(-tags)
    repositories,    \* config.Repositories
    targetDir,       \* the files of config.Paths.TargetDir
    scratchDirs,     \* the number of /tmp/gogo_work_* directories that exist
    pc,              \* where the invocation is
    checkedRepos,    \* *checkedRepos
    commands,        \* commands
    i,               \* the position of the running range loop
    repoStatusList,  \* repoStatusList
    apiRequests,     \* the releases/latest requests sent: [name, answer]
    downloads,       \* the positions in repoStatusList downloadFile was called for
    statusLines,     \* the lines printed under [Repositories]
    reports,         \* the lines printed under [Fetching]
    run,             \* the number of the invocation
    dir0,            \* the target directory before the first invocation
    mAssets,         \* matcher alone: release.Assets
    mCand,           \* matcher alone: the candidate the loop ended with
    xIn              \* extractor alone: [format, fileName, utils, archive]

vars == <<hostArch, hostOS, args, update, dryRun, tags, repositories,
          targetDir, scratchDirs, pc, checkedRepos, commands, i,
          repoStatusList, apiRequests, downloads, statusLines, reports,
          run, dir0, mAssets, mCand, xIn>>

\* The number of invocations in a row the model follows.
MaxRuns == 2

\* The longest release.Assets the matcher is run on by itself.
MaxAssets == 2

(***************************************************************************)
(* Configuration and environment of the model                              *)
(***************************************************************************)
Repository(name, file, command, utils, repoTags) ==
    [Name |-> name, File |-> file, Command |-> command, Utils |-> utils,
     Tags |-> repoTags]

RepoAge  == Repository(<<"o", "age">>, "age", "", << >>, <<"x">>)
RepoBat  == Repository(<<"o", "bat">>, "bat", "batcat", <<"batcat">>, << >>)
RepoCroc == Repository(<<"o", "croc">>, "croc", "", << >>, <<"x", "y">>)

\* The repositories in the order the configuration files give them.
ConfiguredRepositories == <<RepoCroc, RepoAge, RepoBat>>

\* The file names of the model, in the order of Go's string comparison.
FileNames == <<"", "age", "bat", "batcat", "croc", "rep">>

FileRank(f) == CHOOSE k \in 1..Len(FileNames) : FileNames[k] = f

\* Repositories.Less
MutLess(p, q) == FileRank(p.File) > FileRank(q.File)
Less(p, q) == FileRank(p.File) < FileRank(q.File)

\* sort.Sort(Repositories(config.Repositories)): the File names of the
\* model are distinct, so the sorted order is unique.
RECURSIVE Insert(_, _)
Insert(sorted, r) ==
    IF sorted = << >> THEN <<r>>
    ELSE IF Less(r, Head(sorted)) THEN <<r>> \o sorted
    ELSE <<Head(sorted)>> \o Insert(Tail(sorted), r)

RECURSIVE SortRepositories(_)
SortRepositories(repos) ==
    IF repos = << >> THEN << >>
    ELSE Insert(SortRepositories(Tail(repos)), Head(repos))

\* The target directory with the files of `present`, installed earlier.
DirWith(present) ==
    [f \in {FileNames[k] : k \in 1..Len(FileNames)} \ {""} |->
        IF f \in present THEN [data |-> "old", mode |-> "0755"] ELSE Absent]

\* release.Assets for a list of asset names: BrowserDownloadURL is <<k>>
\* for the k-th asset.
MkAssets(names) ==
    [k \in 1..Len(names) |-> [Name |-> names[k], BrowserDownloadURL |-> <<k>>]]

N_tool_darwin_amd64_tar_gz == S_tool \o S_us \o S_darwin \o S_us \o S_amd64 \o S_tar_gz
N_tool_linux_amd64_tar_gz  == S_tool \o S_us \o S_linux \o S_us \o S_amd64 \o S_tar_gz
N_tool_sha256              == S_tool \o S_sha \o <<"2", "5", "6">>
N_app_arm64                == S_app \o S_dash \o S_arm64
N_app_amd64                == S_app \o S_dash \o S_amd64
N_app_linux_arm64          == S_app \o S_dash \o S_linux \o S_dash \o S_arm64
N_app_linux_amd64          == S_app \o S_dash \o S_linux \o S_dash \o S_amd64
N_app_linux                == S_app \o S_dash \o S_linux
N_tool_macos_arm64_zip     == S_tool \o S_us \o S_macos \o S_us \o S_arm64 \o S_zip
N_tool_darwin_amd64        == S_tool \o S_us \o S_darwin \o S_us \o S_amd64
N_tool_darwin_amd64_tar_gz_sha256 == N_tool_darwin_amd64_tar_gz \o S_sha \o <<"2", "5", "6">>
N_tool_macos_amd64_arm64   == S_tool \o S_us \o S_macos \o S_us \o S_amd64 \o S_us \o S_arm64
N_tool_osx_x86_64_tgz      == S_tool \o S_us \o S_osx \o S_us \o S_x86_64 \o S_tgz
N_tool_darwin              == S_tool \o S_us \o S_darwin
N_tool_macos               == S_tool \o S_us \o S_macos
N_tool_linux               == S_tool \o S_us \o S_linux
N_tool_linux_musl          == S_tool \o S_us \o S_linux \o S_us \o S_musl
N_tool_darwin_arm64        == S_tool \o S_us \o S_darwin \o S_us \o S_arm64
N_tool_linux_riscv64_tar   == S_tool \o S_us \o S_linux \o S_us \o S_riscv64 \o S_tar
N_Tool_Darwin_AMD64_ZIP    == <<"T", "o", "o", "l", "_", "D", "a", "r", "w", "i", "n", "_",
                                "A", "M", "D", "6", "4", ".", "Z", "I", "P">>

ScenarioDenylist == <<N_tool_darwin_amd64_tar_gz, N_tool_linux_amd64_tar_gz, N_tool_sha256>>
ScenarioArch     == <<N_app_arm64, N_app_amd64>>
ScenarioArchOS   == <<N_app_linux_arm64, N_app_linux_amd64>>
ScenarioMixed    == <<N_tool_macos_arm64_zip, N_tool_darwin_amd64>>
ScenarioSigned   == <<N_tool_darwin_amd64_tar_gz_sha256, N_tool_darwin_amd64_tar_gz>>
ScenarioUpper    == <<N_Tool_Darwin_AMD64_ZIP>>

\* The asset lists the release API answers with in the model.
ReleaseLists ==
    {ScenarioDenylist, ScenarioArch, ScenarioArchOS, ScenarioMixed, ScenarioSigned,
     ScenarioUpper}

\* The answers to the releases/latest request: a transport error, a status
\* other than 200, a body that does not decode, or a release.
ApiResponses ==
    {[kind |-> k, assets |-> << >>] : k \in {"error", "status", "decode"}}
    \cup {[kind |-> "ok", assets |-> MkAssets(l)] : l \in ReleaseLists}

\* Archives a download of the model answers with for a repository.
Entry(path, typ, data) == [path |-> path, typ |-> typ, data |-> data]

RECURSIVE UtilEntries(_)
UtilEntries(utils) ==
    IF utils = << >> THEN << >>
    ELSE <<Entry(<<"pkg", "bin", Head(utils)>>, "reg", "new")>>
         \o UtilEntries(Tail(utils))

ArchiveGood(repo) ==
    [valid |-> TRUE, tail |-> "eof",
     entries |-> <<Entry(<<"pkg">>, "dir", "")>> \o UtilEntries(repo.Utils)
                 \o <<Entry(<<"pkg", repo.File>>, "reg", "new")>>]
ArchiveBroken == [valid |-> FALSE, tail |-> "err", entries |-> << >>]

\* The answers to http.Get(url) for an asset of the given format.
DownloadResponses(repo, assetFormat) ==
    {[kind |-> "error"], [kind |-> "status"]}
    \cup IF assetFormat = "BinaryFormat"
         THEN {[kind |-> "ok", body |-> [data |-> "new", copyOK |-> ok]] :
                  ok \in BOOLEAN}
         ELSE {[kind |-> "ok", body |-> a] :
                  a \in {ArchiveGood(repo), ArchiveBroken}}

\* The command lines of the model after "fetch" (flags apart):
\*   noargs  nothing at all
\*   flags   flags only: command is nil
\*   plain   a first argument without "@": bits is strings.Split(arg, "/")
\*   at      "@path": readable is whether os.Open succeeds, lines the lines
\*           of the file, each a sequence of pieces (see TrimSpace)
ArgForms ==
    {[kind |-> "noargs"], [kind |-> "flags"],
     [kind |-> "plain", bits |-> <<"age">>],
     [kind |-> "plain", bits |-> <<"own", "rep">>],
     [kind |-> "plain", bits |-> <<"https:", "", "github.com", "own", "rep">>],
     [kind |-> "plain", bits |-> <<"https:", "", "github.com", "own">>],
     [kind |-> "at", readable |-> FALSE, lines |-> << >>],
     [kind |-> "at", readable |-> TRUE, lines |-> << >>],
     [kind |-> "at", readable |-> TRUE,
      lines |-> <<<<"bat">>, <<" ">>, <<"\t", "croc", " ">>, <<"a", " ", "ge">>>>]}

\* xIn when no extractor is run by itself.
NoExtraction ==
    [format |-> "BinaryFormat", fileName |-> "", utils |-> << >>,
     archive |-> [valid |-> FALSE, tail |-> "eof", entries |-> << >>]]

\* The hosts of the model, as <<GOARCH, GOOS>>.
Hosts == {<<S_amd64, S_darwin>>, <<S_arm64, S_linux>>, <<S_arm64, S_darwin>>}

(***************************************************************************)
(* Init: the first invocation is about to start.                           *)
(***************************************************************************)
Init ==
    /\ \E h \in Hosts : hostArch = h[1] /\ hostOS = h[2]
    /\ args \in ArgForms
    /\ update \in BOOLEAN
    /\ dryRun \in BOOLEAN
    /\ tags \in {<< >>, <<"x">>}
    /\ (args.kind = "noargs" => ~update /\ ~dryRun /\ tags = << >>)
    /\ repositories = << >>
    /\ targetDir \in {DirWith(p) : p \in {{}, {"batcat"}, {"age", "batcat"}}}
    /\ scratchDirs = 0
    /\ pc = "main"
    /\ checkedRepos = << >>
    /\ commands = << >>
    /\ i = 1
    /\ repoStatusList = << >>
    /\ apiRequests = << >>
    /\ downloads = << >>
    /\ statusLines = << >>
    /\ reports = << >>
    /\ run = 1
    /\ dir0 = targetDir
    /\ mAssets = << >>
    /\ mCand = NoCandidate
    /\ xIn = NoExtraction

\* What an invocation never changes.
Frame == UNCHANGED <<hostArch, hostOS, args, update, dryRun, tags, run,
                     dir0, mAssets, mCand, xIn>>

(***************************************************************************)
(* main and the start of doFetch, up to the [Preflight] header             *)
(***************************************************************************)

\* main, case "fetch": args[0] is read before the length of args is known.
MainNoArgs ==
    /\ pc = "main"
    /\ args.kind = "noargs"
    /\ pc' = "panic"
    /\ Frame
    /\ UNCHANGED <<repositories, targetDir, scratchDirs, checkedRepos,
                   commands, i, repoStatusList, apiRequests, downloads,
                   statusLines, reports>>

\* readConfig, expandPath or checkTargetDir returns an error: os.Exit(1).
ConfigError ==
    /\ pc = "main"
    /\ args.kind # "noargs"
    /\ pc' = "exit1"
    /\ Frame
    /\ UNCHANGED <<repositories, targetDir, scratchDirs, checkedRepos,
                   commands, i, repoStatusList, apiRequests, downloads,
                   statusLines, reports>>

\* "@path" and os.Open(path) fails: os.Exit(1).
ListFileError ==
    /\ pc = "main"
    /\ args.kind = "at"
    /\ ~args.readable
    /\ pc' = "exit1"
    /\ repositories' = SortRepositories(ConfiguredRepositories)
    /\ Frame
    /\ UNCHANGED <<targetDir, scratchDirs, checkedRepos, commands, i,
                   repoStatusList, apiRequests, downloads, statusLines,
                   reports>>

\* A line of the list file is a sequence of pieces: a piece is a run of
\* white space (" " or "\t") or a run of other characters.
WhiteSpace == {" ", "\t"}

\* strings.TrimSpace(line): the white space at both ends is dropped.
RECURSIVE TrimLeft(_)
TrimLeft(line) ==
    IF line # << >> /\ Head(line) \in WhiteSpace THEN TrimLeft(Tail(line))
    ELSE line

RECURSIVE TrimRight(_)
TrimRight(line) ==
    IF line # << >> /\ line[Len(line)] \in WhiteSpace
    THEN TrimRight(SubSeq(line, 1, Len(line) - 1))
    ELSE line

TrimSpace(line) == TrimRight(TrimLeft(line))

\* The string the pieces of a line spell.
RECURSIVE LineString(_)
LineString(line) ==
    IF line = << >> THEN "" ELSE Head(line) \o LineString(Tail(line))

\* The lines the scanner loop keeps: TrimSpace(line) # "".
RECURSIVE ScanLines(_)
ScanLines(lines) ==
    IF lines = << >> THEN << >>
    ELSE LET line == LineString(TrimSpace(Head(lines)))
         IN  IF line = "" THEN ScanLines(Tail(lines))
             ELSE <<line>> \o ScanLines(Tail(lines))

\* The argument is a repository (len(bits) > 1): the slices bits[3:5] and
\* bits[0:2] and the indices bits[4] and bits[1] must be in range.
DirectRepoInRange(bits) ==
    IF bits[1] = "https:" THEN Len(bits) >= 5 ELSE Len(bits) >= 2

MutDirectRepo(bits) ==
    IF bits[1] = "https:"
    THEN Repository(<<bits[3], bits[4]>>, bits[4], "", << >>, << >>)
    ELSE Repository(<<bits[1], bits[2]>>, bits[2], "", << >>, << >>)
directRepo(bits) ==
    IF bits[1] = "https:"
    THEN Repository(<<bits[4], bits[5]>>, bits[5], "", << >>, << >>)
    ELSE Repository(<<bits[1], bits[2]>>, bits[2], "", << >>, << >>)

\* A repository argument whose slices are out of range: a run-time panic.
ResolvePanic ==
    /\ pc = "main"
    /\ args.kind = "plain"
    /\ Len(args.bits) > 1
    /\ ~DirectRepoInRange(args.bits)
    /\ pc' = "panic"
    /\ repositories' = SortRepositories(ConfiguredRepositories)
    /\ Frame
    /\ UNCHANGED <<targetDir, scratchDirs, checkedRepos, commands, i,
                   repoStatusList, apiRequests, downloads, statusLines,
                   reports>>

\* The repositories to check and the names to keep, then "[Preflight]".
Resolve ==
    /\ pc = "main"
    /\ args.kind # "noargs"
    /\ args.kind = "at" => args.readable
    /\ (args.kind = "plain" /\ Len(args.bits) > 1) => DirectRepoInRange(args.bits)
    /\ repositories' = SortRepositories(ConfiguredRepositories)
    /\ checkedRepos' =
          IF args.kind = "plain" /\ Len(args.bits) > 1
          THEN <<directRepo(args.bits)>>
          ELSE repositories'
    /\ commands' =
          CASE args.kind = "flags" -> << >>
            [] args.kind = "at"    -> ScanLines(args.lines)
            [] args.kind = "plain" ->
                 IF Len(args.bits) > 1 THEN <<directRepo(args.bits).File>>
                 ELSE <<args.bits[1]>>
    /\ pc' = "preflight"
    /\ i' = 1
    /\ Frame
    /\ UNCHANGED <<targetDir, scratchDirs, repoStatusList, apiRequests,
                   downloads, statusLines, reports>>

(***************************************************************************)
(* Preflight: one step for each repository of *checkedRepos                *)
(***************************************************************************)
containsTag(repoTags, wanted) ==
    \E t \in 1..Len(wanted) : \E r \in 1..Len(repoTags) : wanted[t] = repoTags[r]

\* The two "continue" filters at the head of the loop.
Filtered(repo) ==
    \/ /\ Len(commands) > 0
       /\ ~\E v \in 1..Len(commands) : commands[v] = repo.File
    \/ /\ Len(tags) > 0
       /\ ~containsTag(repo.Tags, tags)

\* *checkFile
checkFile(repo) == IF repo.Command # "" THEN repo.Command ELSE repo.File

\* if !update { if existFile(filepath.Join(TargetDir, *checkFile)) ...
MutMarkedExist(repo) == ~update /\ existFile(targetDir, repo.File)
MarkedExist(repo) == ~update /\ existFile(targetDir, checkFile(repo))

RepoStatus(repo, status, format, asset, url) ==
    [Repo |-> repo, Status |-> status, Format |-> format, Asset |-> asset,
     Url |-> url]

\* RepoStatus{Repo: &repo, Status: RepoKO}
NewRepoStatus(repo) == RepoStatus(repo, "RepoKO", "BinaryFormat", Empty, << >>)

\* repoStatus after the asset loop over a decoded release.
Matched(repo, assets) ==
    LET cand == SelectAsset(assets, hostArch, hostOS)
    IN  IF cand.idx # 0
        THEN RepoStatus(repo, "RepoOK", getAssetFormat(assets[cand.idx].Name),
                        assets[cand.idx].Name,
                        assets[cand.idx].BrowserDownloadURL)
        ELSE NewRepoStatus(repo)

PreflightFrame ==
    /\ Frame
    /\ UNCHANGED <<repositories, targetDir, scratchDirs, checkedRepos,
                   commands, downloads, statusLines, reports>>

InPreflight == pc = "preflight" /\ i <= Len(checkedRepos)

\* The repository does not pass the filters: continue.
PreflightSkip ==
    /\ InPreflight
    /\ Filtered(checkedRepos[i])
    /\ i' = i + 1
    /\ UNCHANGED <<pc, repoStatusList, apiRequests>>
    /\ PreflightFrame

\* "ignoring existing command": RepoExist is appended, continue.
PreflightExist ==
    /\ InPreflight
    /\ ~Filtered(checkedRepos[i])
    /\ MarkedExist(checkedRepos[i])
    /\ repoStatusList' =
          Append(repoStatusList,
                 [NewRepoStatus(checkedRepos[i]) EXCEPT !.Status = "RepoExist"])
    /\ i' = i + 1
    /\ UNCHANGED <<pc, apiRequests>>
    /\ PreflightFrame

\* What the loop does to repoStatusList when the release request fails
\* (client.Do error, status other than 200, JSON decode error): continue.
AfterQueryFailure(list, repo) == list

\* The release request is sent and fails.
PreflightQueryFail ==
    /\ InPreflight
    /\ ~Filtered(checkedRepos[i])
    /\ ~MarkedExist(checkedRepos[i])
    /\ \E resp \in ApiResponses :
          /\ resp.kind # "ok"
          /\ apiRequests' = Append(apiRequests, [name |-> checkedRepos[i].Name,
                                                  answer |-> resp])
          /\ repoStatusList' = AfterQueryFailure(repoStatusList, checkedRepos[i])
    /\ i' = i + 1
    /\ UNCHANGED pc
    /\ PreflightFrame

\* The release request is sent and answered: the asset loop, then append.
PreflightMatch ==
    /\ InPreflight
    /\ ~Filtered(checkedRepos[i])
    /\ ~MarkedExist(checkedRepos[i])
    /\ \E resp \in ApiResponses :
          /\ resp.kind = "ok"
          /\ apiRequests' = Append(apiRequests, [name |-> checkedRepos[i].Name,
                                                  answer |-> resp])
          /\ repoStatusList' =
                Append(repoStatusList, Matched(checkedRepos[i], resp.assets))
    /\ i' = i + 1
    /\ UNCHANGED pc
    /\ PreflightFrame

(***************************************************************************)
(* Repositories: one line for each entry of repoStatusList                 *)
(***************************************************************************)
RepositoriesPhase ==
    /\ pc = "preflight"
    /\ i > Len(checkedRepos)
    /\ statusLines' =
          [k \in 1..Len(repoStatusList) |->
              [name |-> repoStatusList[k].Repo.Name,
               line |-> CASE repoStatusList[k].Status = "RepoOK" -> "[OK]"
                          [] repoStatusList[k].Status = "RepoKO" -> "[XXX]"
                          [] OTHER -> "[Exist]"]]
    /\ pc' = "fetching"
    /\ i' = 1
    /\ Frame
    /\ UNCHANGED <<repositories, targetDir, scratchDirs, checkedRepos,
                   commands, repoStatusList, apiRequests, downloads, reports>>

(***************************************************************************)
(* Fetching: one step for each entry of repoStatusList                     *)
(***************************************************************************)
Report(k, line) == [entry |-> k, name |-> repoStatusList[k].Repo.Name, line |-> line]

FetchFrame ==
    /\ Frame
    /\ UNCHANGED <<repositories, checkedRepos, commands, repoStatusList,
                   apiRequests, statusLines>>

InFetching == pc = "fetching" /\ i <= Len(repoStatusList)

\* The line a dry run prints for an entry.
MutDryRunLine(st) == "Dry-Run: [Fetched]"
DryRunLine(st) ==
    IF st.Status # "RepoOK" THEN "Dry-Run: [Ignored]" ELSE "Dry-Run: [Fetched]"

\* if dryRun { ... continue }
FetchDryRun ==
    /\ InFetching
    /\ dryRun
    /\ reports' = Append(reports, Report(i, DryRunLine(repoStatusList[i])))
    /\ i' = i + 1
    /\ UNCHANGED <<pc, targetDir, scratchDirs, downloads>>
    /\ FetchFrame

\* The entries the loop reports as "[Ignored]" and passes over.
MutNotFetched(st) == st.Status = "RepoKO"
MutNeverIgnored(st) == FALSE
NotFetched(st) == st.Status # "RepoOK"

FetchIgnored ==
    /\ InFetching
    /\ ~dryRun
    /\ NotFetched(repoStatusList[i])
    /\ reports' = Append(reports, Report(i, "[Ignored]"))
    /\ i' = i + 1
    /\ UNCHANGED <<pc, targetDir, scratchDirs, downloads>>
    /\ FetchFrame

\* Where the loop goes after downloadFile returned an error: break.
MutAfterDownloadError == "fetching"
AfterDownloadError == "done"

\* downloadFile is called for the entry; an error ends the loop.
FetchDownload ==
    /\ InFetching
    /\ ~dryRun
    /\ ~NotFetched(repoStatusList[i])
    /\ LET st == repoStatusList[i]
       IN  \E resp \in DownloadResponses(st.Repo, st.Format) :
              LET r == downloadFile(resp, st.Format, st.Repo.File,
                                    st.Repo.Utils, targetDir, scratchDirs)
              IN  /\ downloads' = Append(downloads, i)
                  /\ targetDir' = r.dir
                  /\ scratchDirs' = r.scratch
                  /\ reports' = Append(reports,
                                   Report(i, IF r.err THEN "[error]"
                                             ELSE "[Fetched]"))
                  /\ pc' = IF r.err THEN AfterDownloadError ELSE pc
    /\ i' = i + 1
    /\ FetchFrame

\* The loop is over: doFetch returns.
FetchEnd ==
    /\ pc = "fetching"
    /\ i > Len(repoStatusList)
    /\ pc' = "done"
    /\ UNCHANGED <<i, targetDir, scratchDirs, downloads, reports>>
    /\ FetchFrame

(***************************************************************************)
(* The same command line is run again on what the invocation left behind.  *)
(***************************************************************************)
Rerun ==
    /\ pc = "done"
    /\ run < MaxRuns
    /\ run' = run + 1
    /\ pc' = "main"
    /\ repositories' = << >>
    /\ checkedRepos' = << >>
    /\ commands' = << >>
    /\ i' = 1
    /\ repoStatusList' = << >>
    /\ apiRequests' = << >>
    /\ downloads' = << >>
    /\ statusLines' = << >>
    /\ reports' = << >>
    /\ UNCHANGED <<hostArch, hostOS, args, update, dryRun, tags, targetDir,
                   scratchDirs, dir0, mAssets, mCand, xIn>>

Next ==
    \/ MainNoArgs
    \/ ConfigError
    \/ ListFileError
    \/ ResolvePanic
    \/ Resolve
    \/ PreflightSkip
    \/ PreflightExist
    \/ PreflightQueryFail
    \/ PreflightMatch
    \/ RepositoriesPhase
    \/ FetchDryRun
    \/ FetchIgnored
    \/ FetchDownload
    \/ FetchEnd

\* One invocation of "gogo fetch".
Spec == Init /\ [][Next]_vars

\* Invocations in a row of one command line on one host, without -update.
InitTwice ==
    /\ Init
    /\ hostArch = S_amd64
    /\ hostOS = S_darwin
    /\ ~update
    /\ tags = << >>

NextTwice == Next \/ Rerun

SpecTwice == InitTwice /\ [][NextTwice]_vars

(***************************************************************************)
(* The asset matcher by itself, on every list of up to MaxAssets names of  *)
(* NamePool and every host of MatchHosts.                                  *)
(***************************************************************************)
NamePool ==
    {N_app_arm64, N_app_amd64, N_app_linux_arm64, N_app_linux,
     N_tool_darwin_amd64_tar_gz, N_tool_linux_amd64_tar_gz,
     N_tool_darwin_amd64_tar_gz_sha256, N_tool_macos_arm64_zip,
     N_tool_darwin_amd64, N_tool_macos_amd64_arm64, N_tool_osx_x86_64_tgz,
     N_tool_darwin, N_tool_macos, N_tool_linux, N_tool_linux_musl,
     N_tool_darwin_arm64, N_tool_linux_riscv64_tar, N_Tool_Darwin_AMD64_ZIP}

\* The hosts the matcher is run for, as <<GOARCH, GOOS>>: riscv64 is in no
\* architecture table and linux in no OS table.
MatchHosts ==
    {<<S_amd64, S_darwin>>, <<S_arm64, S_darwin>>, <<S_amd64, S_linux>>,
     <<S_arm64, S_linux>>, <<S_riscv64, S_linux>>}

NameLists == UNION {[1..n -> NamePool] : n \in 0..MaxAssets}

InitMatch ==
    /\ \E h \in MatchHosts : hostArch = h[1] /\ hostOS = h[2]
    /\ mAssets \in {MkAssets(l) : l \in NameLists}
    /\ mCand = NoCandidate
    /\ pc = "match"
    /\ args = [kind |-> "flags"]
    /\ update = FALSE
    /\ dryRun = FALSE
    /\ tags = << >>
    /\ repositories = << >>
    /\ targetDir = DirWith({})
    /\ scratchDirs = 0
    /\ checkedRepos = << >>
    /\ commands = << >>
    /\ i = 1
    /\ repoStatusList = << >>
    /\ apiRequests = << >>
    /\ downloads = << >>
    /\ statusLines = << >>
    /\ reports = << >>
    /\ run = 1
    /\ dir0 = targetDir
    /\ xIn = NoExtraction

\* The asset loop of doFetch on mAssets.
Match ==
    /\ pc = "match"
    /\ mCand' = SelectAsset(mAssets, hostArch, hostOS)
    /\ pc' = "matched"
    /\ UNCHANGED <<hostArch, hostOS, args, update, dryRun, tags, repositories,
                   targetDir, scratchDirs, checkedRepos, commands, i,
                   repoStatusList, apiRequests, downloads, statusLines,
                   reports, run, dir0, mAssets, xIn>>

NextMatch == Match

SpecMatch == InitMatch /\ [][NextMatch]_vars

(***************************************************************************)
(* The extractors by themselves, on every archive of up to MaxEntries      *)
(* entries of EntryPool, for every archive format and every primary file   *)
(* name and utils list of ExtractRequests.  The data of an entry tells the *)
(* entry it was read from.                                                 *)
(***************************************************************************)

\* The most entries of an archive given to an extractor by itself.
MaxEntries == 3

EntryPool ==
    {Entry(<<"bat">>, "reg", "d1"),
     Entry(<<"pkg", "bat">>, "reg", "d2"),
     Entry(<<"pkg", "bin", "batcat">>, "reg", "d3"),
     Entry(<<"batcat">>, "reg", "d4"),
     Entry(<<"pkg", "rep">>, "reg", "d5"),
     Entry(<<"pkg", "croc">>, "reg", "d6"),
     Entry(<<"pkg", "bat">>, "dir", ""),
     Entry(<<"pkg">>, "dir", "")}

EntryLists == UNION {[1..n -> EntryPool] : n \in 0..MaxEntries}

\* <<fileName, utils>> of the repository the archive is extracted for.
ExtractRequests ==
    {<<"bat", << >>>>, <<"bat", <<"batcat">>>>, <<"bat", <<"rep", "batcat">>>>}

\* The archive opens and reads to its end, does not open (gzip, zip), or
\* its stream ends in a read error (tar, tar.gz).
Archives(format) ==
    {[valid |-> TRUE, tail |-> "eof", entries |-> l] : l \in EntryLists}
    \cup (IF format = "TarballFormat" THEN {}
          ELSE {[valid |-> FALSE, tail |-> "eof", entries |-> l] : l \in EntryLists})
    \cup (IF format = "ZipFormat" THEN {}
          ELSE {[valid |-> TRUE, tail |-> "err", entries |-> l] : l \in EntryLists})

InitExtract ==
    /\ \E format \in {"TarballFormat", "TargzipFormat", "ZipFormat"} :
       \E q \in ExtractRequests :
       \E archive \in Archives(format) :
          xIn = [format |-> format, fileName |-> q[1], utils |-> q[2],
                 archive |-> archive]
    /\ targetDir = DirWith({"batcat", "croc"})
    /\ dir0 = targetDir
    /\ scratchDirs = 0
    /\ pc = "extract"
    /\ hostArch = S_amd64
    /\ hostOS = S_darwin
    /\ args = [kind |-> "flags"]
    /\ update = FALSE
    /\ dryRun = FALSE
    /\ tags = << >>
    /\ repositories = << >>
    /\ checkedRepos = << >>
    /\ commands = << >>
    /\ i = 1
    /\ repoStatusList = << >>
    /\ apiRequests = << >>
    /\ downloads = << >>
    /\ statusLines = << >>
    /\ reports = << >>
    /\ run = 1
    /\ mAssets = << >>
    /\ mCand = NoCandidate

\* downloadFile on a response with status 200 whose body is the archive.
Extract ==
    /\ pc = "extract"
    /\ LET r == downloadFile([kind |-> "ok", body |-> xIn.archive], xIn.format,
                             xIn.fileName, xIn.utils, targetDir, scratchDirs)
       IN  /\ targetDir' = r.dir
           /\ scratchDirs' = r.scratch
           /\ pc' = IF r.err THEN "extractError" ELSE "extracted"
    /\ UNCHANGED <<hostArch, hostOS, args, update, dryRun, tags, repositories,
                   checkedRepos, commands, i, repoStatusList, apiRequests,
                   downloads, statusLines, reports, run, dir0, mAssets,
                   mCand, xIn>>

NextExtract == Extract

SpecExtract == InitExtract /\ [][NextExtract]_vars

(***************************************************************************)
(* Properties of the asset matcher (SpecMatch)                             *)
(***************************************************************************)

\* The lower-cased name of the k-th asset of the list.
LowerName(assets, k) == ToLower(assets[k].Name)

\* The non-empty tokens of the families other than the host's.
OtherFamilyTokens(arch) ==
    CASE arch = S_amd64 -> {S_arm, S_arm64, S_aarch64}
      [] arch = S_arm64 -> {S_amd64, S_x86_64, S_musl}
      [] OTHER          -> {}

\* The rungs of the host's family and the synonyms of the host's OS.
Rungs(arch) ==
    CASE arch = S_amd64 -> <<Empty, S_amd64, S_x86_64, S_musl>>
      [] arch = S_arm64 -> <<Empty, S_arm, S_arm64, S_aarch64>>
      [] OTHER          -> <<arch>>
Synonyms(os) ==
    CASE os = S_darwin -> <<S_darwin, S_macos, S_osx>>
      [] OTHER         -> <<os>>

Denylisted(name) ==
    \/ Contains(name, S_sha) \/ Contains(name, S_sig) \/ Contains(name, S_asc)

CrossArch(name, arch) == \E t \in OtherFamilyTokens(arch) : Contains(name, t)

\* The indices (from 0) of the tokens of a list that occur in a name.
MatchedIdx(name, tokens) == {k - 1 : k \in {j \in 1..Len(tokens) : Contains(name, tokens[j])}}

Max(S) == CHOOSE m \in S : \A n \in S : n <= m

\* Eligible: not denylisted, not disqualified, and matching an OS synonym
\* and a rung of the host.
Eligible(name, arch, os) ==
    /\ ~Denylisted(name)
    /\ ~CrossArch(name, arch)
    /\ MatchedIdx(name, Synonyms(os)) # {}
    /\ MatchedIdx(name, Rungs(arch)) # {}

BestOS(name, os) == Max(MatchedIdx(name, Synonyms(os)))
BestArch(name, arch) == Max(MatchedIdx(name, Rungs(arch)))

Matched1 == pc = "matched"

\* C1: on a host of a recognized architecture (amd64, arm64), the selected
\* asset never has, in its lower-cased name, a non-empty token of the other
\* architecture's family, whatever else the name contains.
CrossArchExclusion ==
    (Matched1 /\ hostArch \in {S_amd64, S_arm64} /\ mCand.idx # 0)
        => ~CrossArch(LowerName(mAssets, mCand.idx), hostArch)

\* C1 witness: on darwin/amd64 the list holds tool_macos_amd64_arm64, which
\* carries the host's own token and an OS synonym, and another asset is the
\* one selected.
CrossArchExclusionWitness ==
    /\ Matched1
    /\ hostArch = S_amd64
    /\ hostOS = S_darwin
    /\ \E k \in 1..Len(mAssets) :
          /\ mAssets[k].Name = N_tool_macos_amd64_arm64
          /\ mCand.idx # 0
          /\ mCand.idx # k

\* C3: of two eligible assets, the one whose best OS synonym has the lower
\* index is never selected and some asset is selected, whatever the rungs
\* and the order; every score osIdx*16 + archIdx of the tables is below 256
\* with archIdx below 16, and the strength kept is the selected asset's
\* unwrapped best score.
OSRankDominates ==
    Matched1 =>
        /\ \A x, y \in 1..Len(mAssets) :
              LET nx == LowerName(mAssets, x)
                  ny == LowerName(mAssets, y)
              IN  (/\ Eligible(nx, hostArch, hostOS)
                   /\ Eligible(ny, hostArch, hostOS)
                   /\ BestOS(nx, hostOS) > BestOS(ny, hostOS))
                      => (mCand.idx # y /\ mCand.idx # 0)
        /\ (Len(Synonyms(hostOS)) - 1) * 16 + (Len(Rungs(hostArch)) - 1) < 256
        /\ Len(Rungs(hostArch)) - 1 < 16
        /\ mCand.idx # 0 =>
              mCand.strength =
                  BestOS(LowerName(mAssets, mCand.idx), hostOS) * 16
                  + BestArch(LowerName(mAssets, mCand.idx), hostArch)

\* C3 witness: the asset with the lower OS index has the higher rung and
\* comes first, and the other one is selected.
OSRankDominatesWitness ==
    /\ Matched1
    /\ \E x, y \in 1..Len(mAssets) :
          LET nx == LowerName(mAssets, x)
              ny == LowerName(mAssets, y)
          IN  /\ y < x
              /\ Eligible(nx, hostArch, hostOS)
              /\ Eligible(ny, hostArch, hostOS)
              /\ BestOS(nx, hostOS) > BestOS(ny, hostOS)
              /\ BestArch(nx, hostArch) < BestArch(ny, hostArch)
              /\ mCand.idx = x

\* C4: of two eligible assets with the same best OS synonym, the one with
\* the lower best rung is never selected, and the one with the higher rung
\* is selected when no third asset is eligible, whatever the order.
ArchRungBreaksTies ==
    Matched1 =>
        \A x, y \in 1..Len(mAssets) :
            LET nx == LowerName(mAssets, x)
                ny == LowerName(mAssets, y)
            IN  (/\ Eligible(nx, hostArch, hostOS)
                 /\ Eligible(ny, hostArch, hostOS)
                 /\ BestOS(nx, hostOS) = BestOS(ny, hostOS)
                 /\ BestArch(nx, hostArch) > BestArch(ny, hostArch))
                    => /\ mCand.idx # y
                       /\ (\A z \in 1..Len(mAssets) :
                              Eligible(LowerName(mAssets, z), hostArch, hostOS)
                                  => BestArch(LowerName(mAssets, z), hostArch)
                                         <= BestArch(nx, hostArch)
                                     /\ BestOS(LowerName(mAssets, z), hostOS)
                                         = BestOS(nx, hostOS))
                              => (mCand.idx # 0
                                  /\ BestArch(LowerName(mAssets, mCand.idx), hostArch)
                                         = BestArch(nx, hostArch))

\* C4 witness: the asset with the higher rung comes second and is selected.
ArchRungBreaksTiesWitness ==
    /\ Matched1
    /\ \E x, y \in 1..Len(mAssets) :
          LET nx == LowerName(mAssets, x)
              ny == LowerName(mAssets, y)
          IN  /\ y < x
              /\ Eligible(nx, hostArch, hostOS)
              /\ Eligible(ny, hostArch, hostOS)
              /\ BestOS(nx, hostOS) = BestOS(ny, hostOS)
              /\ BestArch(nx, hostArch) > BestArch(ny, hostArch)
              /\ mCand.idx = x

(***************************************************************************)
(* Properties of one invocation (Spec) and of invocations in a row         *)
(* (SpecTwice)                                                             *)
(***************************************************************************)
AfterPreflight == pc \in {"fetching", "done"}

\* The k-th repository of *checkedRepos has been through the preflight loop.
Preflighted(k) == AfterPreflight \/ (pc = "preflight" /\ k < i)

\* The entries of repoStatusList of a repository, and the requests for it.
EntriesOf(name) == {e \in 1..Len(repoStatusList) : repoStatusList[e].Repo.Name = name}
RequestsOf(name) == {q \in 1..Len(apiRequests) : apiRequests[q].name = name}

\* The file the existence check looks for.
InstalledName(repo) == IF repo.Command = "" THEN repo.File ELSE repo.Command

IgnoredLines == {"[Ignored]", "Dry-Run: [Ignored]"}
ReportedIgnored(k) ==
    \E p \in 1..Len(reports) : reports[p].entry = k /\ reports[p].line \in IgnoredLines

\* The entry of the download that failed, if one did.
FailedEntries == {reports[p].entry : p \in {q \in 1..Len(reports) : reports[q].line = "[error]"}}

\* C2: an entry of the status list that is OK carries the name, URL of one
\* asset of the release answered for its repository, and that name has no
\* denylisted infix (.sha, .sig, .asc); for the release
\* [tool_darwin_amd64.tar.gz, tool_linux_amd64.tar.gz, tool.sha256] on
\* darwin/amd64 the entry is tool_darwin_amd64.tar.gz, a gzip tarball.
DenylistNeverSelected ==
    /\ \A e \in 1..Len(repoStatusList) :
          LET st == repoStatusList[e]
          IN  st.Status = "RepoOK" =>
                 /\ ~Denylisted(ToLower(st.Asset))
                 /\ \E q \in RequestsOf(st.Repo.Name) :
                       \E a \in 1..Len(apiRequests[q].answer.assets) :
                          /\ apiRequests[q].answer.assets[a].Name = st.Asset
                          /\ apiRequests[q].answer.assets[a].BrowserDownloadURL = st.Url
    /\ \A q \in 1..Len(apiRequests) :
          (/\ hostArch = S_amd64
           /\ hostOS = S_darwin
           /\ apiRequests[q].answer.assets = MkAssets(ScenarioDenylist))
              => /\ EntriesOf(apiRequests[q].name) # {}
                 /\ \A e \in EntriesOf(apiRequests[q].name) :
                       /\ repoStatusList[e].Status = "RepoOK"
                       /\ repoStatusList[e].Asset = N_tool_darwin_amd64_tar_gz
                       /\ repoStatusList[e].Url = <<1>>
                       /\ repoStatusList[e].Format = "TargzipFormat"

\* C2 witness: on darwin/amd64 one release is the scenario's and another
\* one holds a denylisted name that matches OS and architecture, ahead of
\* the asset that is selected.
DenylistNeverSelectedWitness ==
    /\ hostArch = S_amd64
    /\ hostOS = S_darwin
    /\ \E q \in 1..Len(apiRequests) :
          apiRequests[q].answer.assets = MkAssets(ScenarioDenylist)
    /\ \E q \in 1..Len(apiRequests) :
          /\ apiRequests[q].answer.assets = MkAssets(ScenarioSigned)
          /\ \E e \in EntriesOf(apiRequests[q].name) :
                repoStatusList[e].Asset = N_tool_darwin_amd64_tar_gz

\* C5 as stated: for the release [app-arm64, app-amd64] on an arm64 host
\* the entry is OK with app-arm64, a plain binary.
ScenarioArchSelected ==
    \A q \in 1..Len(apiRequests) :
        (/\ hostArch = S_arm64
         /\ apiRequests[q].answer.assets = MkAssets(ScenarioArch))
            => /\ EntriesOf(apiRequests[q].name) # {}
               /\ \A e \in EntriesOf(apiRequests[q].name) :
                     /\ repoStatusList[e].Status = "RepoOK"
                     /\ repoStatusList[e].Asset = N_app_arm64
                     /\ repoStatusList[e].Format = "BinaryFormat"

\* C5 as amended: for the release [app-arm64, app-amd64] on an arm64 host
\* no asset is selected (neither name contains a synonym of the host OS)
\* and the entry is KO; for [app-linux-arm64, app-linux-amd64] on
\* linux/arm64 the entry is OK with app-linux-arm64, a plain binary.
ScenarioArchNeedsOS ==
    \A q \in 1..Len(apiRequests) :
        /\ (/\ hostArch = S_arm64
            /\ apiRequests[q].answer.assets = MkAssets(ScenarioArch))
               => /\ EntriesOf(apiRequests[q].name) # {}
                  /\ \A e \in EntriesOf(apiRequests[q].name) :
                        /\ repoStatusList[e].Status = "RepoKO"
                        /\ repoStatusList[e].Asset = Empty
                        /\ repoStatusList[e].Url = << >>
        /\ (/\ hostArch = S_arm64
            /\ hostOS = S_linux
            /\ apiRequests[q].answer.assets = MkAssets(ScenarioArchOS))
               => /\ EntriesOf(apiRequests[q].name) # {}
                  /\ \A e \in EntriesOf(apiRequests[q].name) :
                        /\ repoStatusList[e].Status = "RepoOK"
                        /\ repoStatusList[e].Asset = N_app_linux_arm64
                        /\ repoStatusList[e].Url = <<1>>
                        /\ repoStatusList[e].Format = "BinaryFormat"

\* C5 witness: on linux/arm64 both releases have been answered and
\* matched in one preflight.
ScenarioArchNeedsOSWitness ==
    /\ hostArch = S_arm64
    /\ hostOS = S_linux
    /\ AfterPreflight
    /\ \E q \in 1..Len(apiRequests) :
          apiRequests[q].answer.assets = MkAssets(ScenarioArch)
    /\ \E q \in 1..Len(apiRequests) :
          apiRequests[q].answer.assets = MkAssets(ScenarioArchOS)

\* C6: the error line of a failed download is the last line of the
\* Fetching phase and no entry after the failed one is downloaded or
\* reported; once it is printed, no download, report, target file or
\* scratch directory changes, and the lines printed before stay.
FailFast ==
    /\ [](\A f \in FailedEntries :
             /\ reports[Len(reports)].entry = f
             /\ reports[Len(reports)].line = "[error]"
             /\ \A p \in 1..Len(reports) : reports[p].entry <= f
             /\ \A d \in 1..Len(downloads) : downloads[d] <= f)
    /\ [][/\ FailedEntries # {} =>
                UNCHANGED <<downloads, reports, targetDir, scratchDirs>>
          /\ Len(reports') >= Len(reports)
          /\ SubSeq(reports', 1, Len(reports)) = reports]_vars

\* C6 witness: a download failed, the invocation is over, and an entry
\* after the failed one is OK.
FailFastWitness ==
    /\ pc = "done"
    /\ ~dryRun
    /\ \E f \in FailedEntries :
          \E e \in 1..Len(repoStatusList) :
             /\ e > f
             /\ repoStatusList[e].Status = "RepoOK"
             /\ \E b \in 1..Len(reports) :
                   reports[b].entry < f /\ reports[b].line = "[Fetched]"

\* C7 as stated: after Preflight every repository that passed the filters
\* has exactly one entry, and the entry of one whose release request
\* failed is KO and has its line under [Repositories].
QueryFailureRecordedKO ==
    AfterPreflight =>
        /\ \A k \in 1..Len(checkedRepos) :
              ~Filtered(checkedRepos[k]) =>
                  Cardinality(EntriesOf(checkedRepos[k].Name)) = 1
        /\ \A q \in 1..Len(apiRequests) :
              apiRequests[q].answer.kind # "ok" =>
                  /\ \E e \in EntriesOf(apiRequests[q].name) :
                        repoStatusList[e].Status = "RepoKO"
                  /\ \E l \in 1..Len(statusLines) :
                        /\ statusLines[l].name = apiRequests[q].name
                        /\ statusLines[l].line = "[XXX]"

\* C8 as stated: downloadFile is called for OK entries only, and at the
\* end every entry that is KO or Exists has its Ignored line.
OnlyOKDownloadedAllReported ==
    /\ \A d \in 1..Len(downloads) : repoStatusList[downloads[d]].Status = "RepoOK"
    /\ pc = "done" =>
          \A e \in 1..Len(repoStatusList) :
              repoStatusList[e].Status # "RepoOK" => ReportedIgnored(e)

\* C8 as amended: downloadFile is called for OK entries only; the step of
\* an entry that is KO or Exists downloads nothing and changes no file; and
\* at the end every such entry has its Ignored line unless the download of
\* an earlier entry failed, which ended the phase.
OnlyOKDownloaded ==
    /\ [](/\ \A d \in 1..Len(downloads) :
                repoStatusList[downloads[d]].Status = "RepoOK"
          /\ pc = "done" =>
                \A e \in 1..Len(repoStatusList) :
                    repoStatusList[e].Status # "RepoOK" =>
                        \/ ReportedIgnored(e)
                        \/ \E f \in FailedEntries : f < e)
    /\ [][(/\ pc = "fetching"
           /\ i <= Len(repoStatusList)
           /\ repoStatusList[i].Status # "RepoOK")
              => /\ UNCHANGED <<downloads, targetDir, scratchDirs>>
                 /\ \E p \in 1..Len(reports') :
                       /\ reports'[p].entry = i
                       /\ reports'[p].line \in IgnoredLines]_vars

\* C8 witness: at the end one entry was downloaded, and a KO entry and an
\* Exists entry were each reported as Ignored.
OnlyOKDownloadedWitness ==
    /\ pc = "done"
    /\ ~dryRun
    /\ Len(downloads) > 0
    /\ \E e \in 1..Len(repoStatusList) :
          repoStatusList[e].Status = "RepoKO" /\ ReportedIgnored(e)
    /\ \E e \in 1..Len(repoStatusList) :
          repoStatusList[e].Status = "RepoExist" /\ ReportedIgnored(e)

\* C9: a repository that passed the filters and has been through
\* preflight is marked Exists, and no release request was sent for it,
\* exactly when update is false and the target directory holds
\* <command> (or <file> when command is empty); otherwise it is not
\* marked Exists and the request was sent.
ExistsCheck ==
    \A k \in 1..Len(checkedRepos) :
        (Preflighted(k) /\ ~Filtered(checkedRepos[k])) =>
            LET r == checkedRepos[k]
                installed == ~update /\ dir0[InstalledName(r)] # Absent
            IN  /\ installed <=>
                      \E e \in EntriesOf(r.Name) :
                          repoStatusList[e].Status = "RepoExist"
                /\ installed <=> RequestsOf(r.Name) = {}

\* C9 witness: bat is marked Exists because batcat, its command, is in the
\* target directory, while the file bat is not.
ExistsCheckWitness ==
    /\ AfterPreflight
    /\ dir0["batcat"] # Absent
    /\ dir0["bat"] = Absent
    /\ \E e \in EntriesOf(RepoBat.Name) : repoStatusList[e].Status = "RepoExist"
    /\ \E e \in 1..Len(repoStatusList) : repoStatusList[e].Status = "RepoOK"

\* C10: without -update, in the first invocation and in the ones after
\* it, a repository that passed the filters and whose command was in the
\* target directory before the first invocation is marked Exists, no
\* release request and no download is made for it, and its installed file
\* is as it was.
Idempotence ==
    \A k \in 1..Len(checkedRepos) :
        (/\ Preflighted(k)
         /\ ~Filtered(checkedRepos[k])
         /\ ~update
         /\ dir0[InstalledName(checkedRepos[k])] # Absent)
            => LET r == checkedRepos[k]
               IN  /\ EntriesOf(r.Name) # {}
                   /\ \A e \in EntriesOf(r.Name) :
                         /\ repoStatusList[e].Status = "RepoExist"
                         /\ \A d \in 1..Len(downloads) : downloads[d] # e
                   /\ RequestsOf(r.Name) = {}
                   /\ targetDir[InstalledName(r)] = dir0[InstalledName(r)]

\* C10 witness: the second invocation is over, age was installed before
\* the first one and is marked Exists, and another repository was
\* downloaded in the second invocation.
IdempotenceWitness ==
    /\ run = MaxRuns
    /\ pc = "done"
    /\ dir0["age"] # Absent
    /\ \E e \in EntriesOf(RepoAge.Name) : repoStatusList[e].Status = "RepoExist"
    /\ Len(downloads) > 0


(***************************************************************************)
(* Dry run                                                                 *)
(***************************************************************************)

\* repoStatusList as the inputs of the invocation other than -dry-run give
\* it: the repositories to check from the k-th on, the files the target
\* directory had at the start, -update, the host and the answers to the
\* release requests from the q-th on.
RECURSIVE StatusesFrom(_, _)
StatusesFrom(k, q) ==
    IF k > Len(checkedRepos) THEN << >>
    ELSE LET repo == checkedRepos[k]
         IN  IF Filtered(repo) THEN StatusesFrom(k + 1, q)
             ELSE IF ~update /\ dir0[InstalledName(repo)] # Absent
             THEN <<RepoStatus(repo, "RepoExist", "BinaryFormat", Empty, << >>)>>
                  \o StatusesFrom(k + 1, q)
             ELSE IF q > Len(apiRequests) THEN << >>
             ELSE IF apiRequests[q].answer.kind # "ok"
             THEN StatusesFrom(k + 1, q + 1)
             ELSE <<Matched(repo, apiRequests[q].answer.assets)>>
                  \o StatusesFrom(k + 1, q + 1)

\* C11: in a dry run downloadFile is never called and the target directory
\* (and the scratch directories) stay as they were; the p-th line under
\* [Fetching] is for the p-th status entry, "Dry-Run: [Fetched]" for an OK
\* entry and "Dry-Run: [Ignored]" for any other, and at the end every
\* entry has its line; and in every invocation, dry or not, the status
\* entries preflight ends with (the Fetching phase leaves them alone) are
\* those the other inputs determine, so a dry run and a non-dry run on the
\* same inputs have the same statuses.
DryRunOnlyReports ==
    /\ dryRun =>
          /\ downloads = << >>
          /\ targetDir = dir0
          /\ scratchDirs = 0
          /\ \A p \in 1..Len(reports) :
                /\ reports[p].entry = p
                /\ reports[p].line =
                      IF repoStatusList[p].Status = "RepoOK"
                      THEN "Dry-Run: [Fetched]" ELSE "Dry-Run: [Ignored]"
          /\ pc = "done" => Len(reports) = Len(repoStatusList)
    /\ (pc = "fetching" /\ i = 1) => repoStatusList = StatusesFrom(1, 1)

\* C11 witness: a dry run has ended with an OK entry reported as fetched
\* and an entry that is not OK reported as ignored.
DryRunOnlyReportsWitness ==
    /\ dryRun
    /\ pc = "done"
    /\ \E p \in 1..Len(reports) :
          repoStatusList[p].Status = "RepoOK" /\ reports[p].line = "Dry-Run: [Fetched]"
    /\ \E p \in 1..Len(reports) :
          repoStatusList[p].Status = "RepoExist" /\ reports[p].line = "Dry-Run: [Ignored]"
    /\ \E p \in 1..Len(reports) :
          repoStatusList[p].Status = "RepoKO" /\ reports[p].line = "Dry-Run: [Ignored]"

(***************************************************************************)
(* Properties of the extractors (SpecExtract)                              *)
(***************************************************************************)
ExtractDone == pc \in {"extracted", "extractError"}

\* The primary file name and the declared utils of the extraction.
Requested == {xIn.fileName} \cup {xIn.utils[k] : k \in 1..Len(xIn.utils)}

\* The files of the target directory the extraction created or overwrote.
Written == {f \in DOMAIN targetDir : targetDir[f] # dir0[f]}

\* The last segment of an entry's path.
LastSegment(path) == path[Len(path)]

XEntries == xIn.archive.entries

\* C12: whatever the archive (tar, tar.gz, zip; opening or not; read to its
\* end or not) and whatever the primary file name and utils, every file of
\* the target directory that extraction created or overwrote is named as
\* the primary file or as one of the utils, and holds the data of an
\* archive entry whose base name is that name.
ExtractionWritesOnlyRequested ==
    ExtractDone =>
        \A f \in Written :
            /\ f \in Requested
            /\ \E k \in 1..Len(XEntries) :
                  /\ LastSegment(XEntries[k].path) = f
                  /\ XEntries[k].data = targetDir[f].data

\* C12 witness: an archive with an entry for the primary file, one for a
\* util and one named as an installed file that was not requested has been
\* extracted: the first two were written, the third file is as it was.
ExtractionWritesOnlyRequestedWitness ==
    /\ pc = "extracted"
    /\ xIn.utils = <<"batcat">>
    /\ Written = {"bat", "batcat"}
    /\ \E k \in 1..Len(XEntries) : LastSegment(XEntries[k].path) = "croc"
    /\ targetDir["croc"] = dir0["croc"]

\* C13 precondition: the archive opens and reads to its end, its entries
\* are regular, have distinct base names, and are exactly the primary file
\* and the utils.
ExactArchive ==
    /\ xIn.archive.valid
    /\ xIn.archive.tail = "eof"
    /\ Len(XEntries) = Len(xIn.utils) + 1
    /\ \A k \in 1..Len(XEntries) : XEntries[k].typ = "reg"
    /\ \A k, l \in 1..Len(XEntries) :
          k # l => LastSegment(XEntries[k].path) # LastSegment(XEntries[l].path)
    /\ {LastSegment(XEntries[k].path) : k \in 1..Len(XEntries)} = Requested

\* C13: extracting an archive of exactly the primary file and the N utils
\* (regular entries, distinct base names, any order, any depth) succeeds,
\* writes exactly the N + 1 requested files, and each has mode 0755 and the
\* data of its entry.
RoundTrip ==
    (ExtractDone /\ ExactArchive) =>
        /\ pc = "extracted"
        /\ Written = Requested
        /\ Cardinality(Written) = Len(xIn.utils) + 1
        /\ \A k \in 1..Len(XEntries) :
              targetDir[LastSegment(XEntries[k].path)] =
                  [data |-> XEntries[k].data, mode |-> "0755"]

\* C13 witness: a zip archive of the primary file and two utils, the
\* primary file last and nested, has been extracted.
RoundTripWitness ==
    /\ pc = "extracted"
    /\ ExactArchive
    /\ xIn.format = "ZipFormat"
    /\ Len(xIn.utils) = 2
    /\ XEntries[3].path = <<"pkg", "bat">>
    /\ targetDir["bat"].data = "d2"

(***************************************************************************)
(* Properties of the argument forms (Spec)                                 *)
(***************************************************************************)

\* The file names the list file lists: a line that is the name with white
\* space, if any, before and after it.
ListedFiles ==
    {f \in {FileNames[k] : k \in 1..Len(FileNames)} \ {""} :
        \E l \in 1..Len(args.lines) :
            \E p \in 1..Len(args.lines[l]) :
                /\ args.lines[l][p] = f
                /\ \A o \in 1..Len(args.lines[l]) :
                      o # p => args.lines[l][o] \in {" ", "\t"}}

\* C14 as stated: for "fetch @path", a configured repository whose file
\* is not a line of the list file is never queried and never gets a status
\* entry (so is never listed or downloaded), also when the list file has no
\* token at all; and one whose file is a line, and whose tags pass, is
\* queried or gets its entry when preflight comes to it.
ListFileSelection ==
    (args.kind = "at" /\ pc \in {"preflight", "fetching", "done"}) =>
        \A k \in 1..Len(checkedRepos) :
            /\ checkedRepos = SortRepositories(ConfiguredRepositories)
            /\ checkedRepos[k].File \notin ListedFiles =>
                  /\ RequestsOf(checkedRepos[k].Name) = {}
                  /\ EntriesOf(checkedRepos[k].Name) = {}
            /\ (/\ checkedRepos[k].File \in ListedFiles
                /\ Preflighted(k)
                /\ Len(tags) > 0 => containsTag(checkedRepos[k].Tags, tags)) =>
                  \/ RequestsOf(checkedRepos[k].Name) # {}
                  \/ EntriesOf(checkedRepos[k].Name) # {}

\* The same for the list files that list at least one token.
ListFileSelectionNonEmpty ==
    (args.kind = "at" /\ ListedFiles # {}) => ListFileSelection

\* The argument is a repository: it contains "/".
RepoArgument == args.kind = "plain" /\ Len(args.bits) > 1

\* The owner and the repository of a repository argument: the 4th and 5th
\* segments of "https://github.com/owner/repo", the two of "owner/repo".
ArgOwner == IF args.bits[1] = "https:" THEN args.bits[4] ELSE args.bits[1]
ArgRepo  == IF args.bits[1] = "https:" THEN args.bits[5] ELSE args.bits[2]

\* C15: for an argument that contains "/", once preflight is reached the
\* repositories it goes through are exactly one, named owner/repo with
\* file repo and nothing else set; every release request and every status
\* entry is for it; and the configured repositories are as readConfig read
\* them.
SyntheticDescriptor ==
    (RepoArgument /\ pc \in {"preflight", "fetching", "done"}) =>
        /\ Len(checkedRepos) = 1
        /\ checkedRepos[1].Name = <<ArgOwner, ArgRepo>>
        /\ checkedRepos[1].File = ArgRepo
        /\ checkedRepos[1].Command = ""
        /\ checkedRepos[1].Utils = << >>
        /\ checkedRepos[1].Tags = << >>
        /\ \A q \in 1..Len(apiRequests) : apiRequests[q].name = <<ArgOwner, ArgRepo>>
        /\ \A e \in 1..Len(repoStatusList) : repoStatusList[e].Repo = checkedRepos[1]
        /\ repositories = SortRepositories(ConfiguredRepositories)

\* C15 witness: "fetch https://github.com/own/rep" has ended with own/rep
\* queried and its asset downloaded as rep.
SyntheticDescriptorWitness ==
    /\ RepoArgument
    /\ args.bits[1] = "https:"
    /\ pc = "done"
    /\ Len(apiRequests) = 1
    /\ apiRequests[1].name = <<"own", "rep">>
    /\ Len(downloads) = 1
    /\ targetDir["rep"] # dir0["rep"]

(***************************************************************************)
(* Properties of the recorded format (Spec)                                *)
(***************************************************************************)

\* The format the suffix of a name stands for.
SuffixFormat(name) ==
    CASE HasSuffix(name, S_tar_gz) \/ HasSuffix(name, S_tgz) -> "TargzipFormat"
      [] HasSuffix(name, S_tar) -> "TarballFormat"
      [] HasSuffix(name, S_zip) -> "ZipFormat"
      [] OTHER -> "BinaryFormat"

\* C16 as stated: the format recorded for a selected asset is the one the
\* suffix of its name stands for, the name being taken as the matcher
\* takes it, lower-cased; so every name the matcher can select, whatever
\* its case, gets the format of its suffix.
FormatFromSuffix ==
    \A e \in 1..Len(repoStatusList) :
        repoStatusList[e].Status = "RepoOK" =>
            repoStatusList[e].Format = SuffixFormat(ToLower(repoStatusList[e].Asset))

\* The same with the name as the release gives it, upper case included.
FormatFromSuffixAsSpelled ==
    \A e \in 1..Len(repoStatusList) :
        repoStatusList[e].Status = "RepoOK" =>
            repoStatusList[e].Format = SuffixFormat(repoStatusList[e].Asset)

\* C17 as stated: no form of the fetch action ends in a run-time panic;
\* "fetch" with nothing after it goes through every configured repository
\* with no name filter, and an argument that contains "/" never stops
\* before preflight other than by the exit with code 1.
NoArgumentCrashes ==
    /\ pc # "panic"
    /\ (args.kind = "noargs" /\ pc \in {"preflight", "fetching", "done"}) =>
          /\ checkedRepos = SortRepositories(ConfiguredRepositories)
          /\ commands = << >>

(***************************************************************************)
(* Properties of the asset matcher at the lowest strength (SpecMatch)      *)
(***************************************************************************)

\* The positions of the eligible assets of the release, and the score of
\* one: its best OS index shifted left by 4 plus its best rung.
EligibleAssets ==
    {x \in 1..Len(mAssets) : Eligible(LowerName(mAssets, x), hostArch, hostOS)}

Score(x) ==
    BestOS(LowerName(mAssets, x), hostOS) * 16
    + BestArch(LowerName(mAssets, x), hostArch)

\* C18 as stated: on a host of a recognized architecture, when the only
\* eligible asset of the release names a host OS synonym and no
\* architecture token (it matches the empty rung alone), it is selected,
\* whatever the index of the synonym, 0 included.
EmptyRungMatch ==
    (Matched1 /\ hostArch \in {S_amd64, S_arm64}) =>
        \A x \in 1..Len(mAssets) :
            (/\ EligibleAssets = {x}
             /\ BestArch(LowerName(mAssets, x), hostArch) = 0)
                => mCand.idx = x

\* The same for the synonyms of index 1 and more ("macos", "osx").
EmptyRungMatchAboveZero ==
    (Matched1 /\ hostArch \in {S_amd64, S_arm64}) =>
        \A x \in 1..Len(mAssets) :
            (/\ EligibleAssets = {x}
             /\ BestArch(LowerName(mAssets, x), hostArch) = 0
             /\ BestOS(LowerName(mAssets, x), hostOS) > 0)
                => mCand.idx = x

\* The host's architecture and OS are in neither table.
UnknownHost == hostArch \notin {S_amd64, S_arm64} /\ hostOS # S_darwin

\* The assets whose lower-cased name has the literal architecture and the
\* literal OS and no denylisted infix.
LiteralAssets ==
    {x \in 1..Len(mAssets) :
        /\ Contains(LowerName(mAssets, x), hostArch)
        /\ Contains(LowerName(mAssets, x), hostOS)
        /\ ~Denylisted(LowerName(mAssets, x))}

\* C19 as stated: on a host whose architecture and OS are in neither
\* table, the selected asset is never one that lacks the literal
\* architecture or the literal OS, and when exactly one asset has both
\* (and no denylisted infix) it is selected.
LiteralFallback ==
    (Matched1 /\ UnknownHost) =>
        /\ mCand.idx # 0 => mCand.idx \in LiteralAssets
        /\ \A x \in 1..Len(mAssets) : LiteralAssets = {x} => mCand.idx = x

\* The first half alone.
LiteralFallbackNeverWithout ==
    (Matched1 /\ UnknownHost) => (mCand.idx # 0 => mCand.idx \in LiteralAssets)

\* The eligible assets of the highest score.
Best == {x \in EligibleAssets : \A y \in EligibleAssets : Score(y) <= Score(x)}

\* C20 as stated: the selected asset is the earliest of the eligible
\* assets that reach the highest score, and no asset is selected exactly
\* when none is eligible.
TiesKeepFirst ==
    Matched1 =>
        IF EligibleAssets = {} THEN mCand = NoCandidate
        ELSE /\ mCand.idx \in Best
             /\ \A y \in Best : mCand.idx <= y

\* The same for the releases whose highest score is above 0.
TiesKeepFirstAboveZero ==
    (Matched1 /\ \E x \in EligibleAssets : Score(x) > 0) => TiesKeepFirst

(***************************************************************************)
(* Zip against tar, the end of the scan, and archives without a match      *)
(* (SpecExtract)                                                           *)
(***************************************************************************)

\* What writeTarballFile makes of the target directory for the entries of
\* the archive read to their end.
AsTarball ==
    writeTarballFile(xIn.fileName, xIn.utils, dir0, 0,
                     [valid |-> TRUE, tail |-> "eof", entries |-> XEntries])

\* C21 as stated: for a zip archive that opens, writeZipFile leaves the
\* target directory, and returns the error or success, that
\* writeTarballFile does for the same entries, primary file name and
\* utils; an entry that is not a regular file is passed over.
ZipSameAsTar ==
    (ExtractDone /\ xIn.format = "ZipFormat" /\ xIn.archive.valid) =>
        /\ targetDir = AsTarball.dir
        /\ (pc = "extractError") = AsTarball.err

\* The same for the archives all of whose entries are regular files.
ZipSameAsTarRegular ==
    (\A k \in 1..Len(XEntries) : XEntries[k].typ = "reg") => ZipSameAsTar

\* The regular entries whose base name is f, and the first of a set of
\* positions.
RegularNamed(f) ==
    {k \in 1..Len(XEntries) :
        XEntries[k].typ = "reg" /\ LastSegment(XEntries[k].path) = f}

First(S) == CHOOSE k \in S : \A l \in S : k <= l

\* The container opens (a tar stream has no container to open).
Opens == xIn.format = "TarballFormat" \/ xIn.archive.valid

\* C22 as stated: for an archive that opens, of any of the three formats,
\* with no utils the only file written is the primary file, with the data
\* of the first regular entry of that base name (nothing is written when
\* there is none); with utils, every requested name that a regular entry
\* of the archive has is written, wherever its entries are, with the data
\* of one of them.
ScanTermination ==
    (ExtractDone /\ Opens) =>
        IF xIn.utils = << >>
        THEN IF RegularNamed(xIn.fileName) = {}
             THEN Written = {}
             ELSE /\ Written = {xIn.fileName}
                  /\ targetDir[xIn.fileName].data =
                        XEntries[First(RegularNamed(xIn.fileName))].data
        ELSE \A f \in Requested :
                RegularNamed(f) # {} =>
                    /\ f \in Written
                    /\ \E k \in RegularNamed(f) :
                          targetDir[f].data = XEntries[k].data

\* The same for tar and tar.gz archives, and for zip archives all of whose
\* entries are regular files.
ScanTerminationRegular ==
    (\/ xIn.format # "ZipFormat"
     \/ \A k \in 1..Len(XEntries) : XEntries[k].typ = "reg") => ScanTermination

\* The stream is not a valid archive of its format: the container does
\* not open, or the tar stream ends in a read error.
NotAnArchive ==
    \/ ~Opens
    \/ xIn.format # "ZipFormat" /\ xIn.archive.tail = "err"

\* C23 as stated: extracting a valid archive with no regular entry named
\* as the primary file or as a util returns no error and leaves the target
\* directory as it was; extracting a stream that is not a valid archive of
\* its format returns an error.
SilentNoOp ==
    ExtractDone =>
        /\ (~NotAnArchive /\ \A f \in Requested : RegularNamed(f) = {}) =>
              (pc = "extracted" /\ Written = {})
        /\ NotAnArchive => pc = "extractError"

\* The first half for tar and tar.gz archives and for zip archives of
\* regular entries only; the second half for the streams whose scan is
\* not over before the invalid part is read.
SilentNoOpRegular ==
    ExtractDone =>
        /\ (/\ ~NotAnArchive
            /\ \A f \in Requested : RegularNamed(f) = {}
            /\ \/ xIn.format # "ZipFormat"
               \/ \A k \in 1..Len(XEntries) : XEntries[k].typ = "reg") =>
              (pc = "extracted" /\ Written = {})
        /\ (NotAnArchive /\ (xIn.utils # << >> \/ Written = {})) =>
              pc = "extractError"

(***************************************************************************)
(* Scratch directories, and the order of an invocation (Spec)              *)
(***************************************************************************)

\* C24 as stated: when downloadFile has returned, with or without an
\* error, the scratch directory its extractor made is gone: between the
\* steps of an invocation, and at its end, no gogo_work_* directory exists.
ScratchCleanup == scratchDirs = 0

\* The lines that end the fetching of an OK entry.
FetchedLines == {"[Fetched]", "[error]"}

\* C25: in one invocation a repository gets its status entry (Exists, KO
\* or OK) during preflight and the entry never changes afterwards; only
\* an OK entry goes on to Fetched or Failed, during Fetching; no
\* repository is queried twice and no entry is downloaded twice; nothing
\* is downloaded or reported before preflight is over; and the entries are
\* in ascending order of file name, which is the order they are
\* downloaded in.
NoRetries ==
    /\ [](/\ \A q, r \in 1..Len(apiRequests) :
                q # r => apiRequests[q].name # apiRequests[r].name
          /\ \A c, d \in 1..Len(downloads) :
                c < d => downloads[c] < downloads[d]
          /\ (downloads # << >> \/ reports # << >>) =>
                (pc \in {"fetching", "done"} /\ Len(checkedRepos) > 0)
          /\ \A e \in 1..Len(repoStatusList) :
                repoStatusList[e].Status \in {"RepoExist", "RepoKO", "RepoOK"}
          /\ \A e, f \in 1..Len(repoStatusList) :
                e < f => FileRank(repoStatusList[e].Repo.File)
                             < FileRank(repoStatusList[f].Repo.File)
          /\ \A d \in 1..Len(downloads) :
                repoStatusList[downloads[d]].Status = "RepoOK"
          /\ \A p \in 1..Len(reports) :
                reports[p].line \in FetchedLines =>
                    /\ repoStatusList[reports[p].entry].Status = "RepoOK"
                    /\ \E d \in 1..Len(downloads) : downloads[d] = reports[p].entry)
    /\ [][/\ Len(repoStatusList') >= Len(repoStatusList)
          /\ \A e \in 1..Len(repoStatusList) :
                repoStatusList'[e] = repoStatusList[e]
          /\ Len(repoStatusList') > Len(repoStatusList) => pc = "preflight"
          /\ Len(apiRequests') >= Len(apiRequests)
          /\ \A q \in 1..Len(apiRequests) : apiRequests'[q] = apiRequests[q]
          /\ Len(apiRequests') > Len(apiRequests) => pc = "preflight"
          /\ Len(downloads') >= Len(downloads)
          /\ \A d \in 1..Len(downloads) : downloads'[d] = downloads[d]
          /\ Len(downloads') > Len(downloads) => pc = "fetching"
          /\ Len(reports') >= Len(reports)
          /\ \A p \in 1..Len(reports) : reports'[p] = reports[p]]_vars

\* C25 witness: an invocation has ended in which one repository was found
\* installed, one was fetched and the download of a later one failed.
NoRetriesWitness ==
    /\ pc = "done"
    /\ Len(apiRequests) = 2
    /\ Len(downloads) = 2
    /\ \E e \in 1..Len(repoStatusList) : repoStatusList[e].Status = "RepoExist"
    /\ reports[Len(reports)].line = "[error]"
    /\ \E p \in 1..Len(reports) : reports[p].line = "[Fetched]"

====
